---- MODULE Spec2Model ----
(***************************************************************************)
(* Model of domaininator.py: DomainChecker.domain_exists (normalisation,   *)
(* retry loop), load_domains_from_file, check_domains_concurrent (thread   *)
(* pool, futures, as_completed) and the part of filter_existing_domains    *)
(* that feeds it.                                                          *)
(*                                                                         *)
(* Python strings are modelled as sequences of one-character strings, so   *)
(* that strip / lower / startswith / split are computed character by      *)
(* character.                                                              *)
(***************************************************************************)
EXTENDS Integers, Sequences, FiniteSets

VARIABLES
    lines,             \* the lines of the input file (open(input_file))
    max_workers,       \* DomainChecker.max_workers
    retry_count,       \* DomainChecker.retry_count
    script,            \* the resolver's answers: <<>> = unconstrained, else per entry the outcome of each attempt
    pc,                \* position of the main thread in filter_existing_domains / check_domains_concurrent
    domains,           \* the list returned by load_domains_from_file
    futures,           \* future_to_domain, in submission order: one record per submitted domain_exists call
    collected,         \* indices of the futures as_completed has yielded, in completion order
    existing_domains,  \* check_domains_concurrent's result list
    pbar,              \* tqdm progress counter
    raw,               \* NormSpec: the argument of one domain_exists call
    checked,           \* NormSpec: what lines 70-82 make of it
    defaulttimeout,    \* the process-wide socket default timeout (socket.getdefaulttimeout())
    timeout,           \* DomainChecker.timeout, in seconds
    args,              \* the parsed command line: timeout, workers, retries
    env,               \* the files: input_exists (line 365), readable (open at 137), writable (line 182-186)
    exit_code,         \* the exit status of the process
    saved              \* the lists handed to save_domains_to_file, in call order

\* what only main(), the output writer and the socket module change
runVars == <<defaulttimeout, timeout, args, env, exit_code, saved>>

vars == <<lines, max_workers, retry_count, script, pc, domains, futures,
          collected, existing_domains, pbar, raw, checked,
          defaulttimeout, timeout, args, env, exit_code, saved>>

-----------------------------------------------------------------------------
(* Bounds of the model *)

MaxLines == 2        \* lines in the input file
MaxRetry == 1        \* largest retry_count tried
MaxWorkers == 2      \* largest max_workers tried
MaxPrefixes == 2     \* prefixes stacked in front of a host in NormSpec's inputs

(* Program constant: the length limit of lines 73 and 147 *)
MaxDomainLen == 253

(* Program constant: the largest number of workers main() accepts, line 373 *)
WorkersLimit == 200

(* Program constant: the default of --timeout, in seconds, lines 29 and 318 *)
DefaultTimeout == 5

-----------------------------------------------------------------------------
(* Strings *)

None == <<"None">>

\* a socket timeout of t seconds, as opposed to None
Secs(t) == <<"s", t>>

UpperChars == <<"A","B","C","D","E","F","G","H","I","J","K","L","M",
                "N","O","P","Q","R","S","T","U","V","W","X","Y","Z">>
LowerChars == <<"a","b","c","d","e","f","g","h","i","j","k","l","m",
                "n","o","p","q","r","s","t","u","v","w","x","y","z">>

WhiteSpace == {" ", "\n"}

LowerChar(c) ==
    IF \E k \in 1..Len(UpperChars) : UpperChars[k] = c
    THEN LowerChars[CHOOSE k \in 1..Len(UpperChars) : UpperChars[k] = c]
    ELSE c

\* The helpers below bind their string argument to its value first
\* (s \in {s0}): TLC passes an operator's arguments unevaluated and would
\* evaluate them again at every use.

\* str.lower()
Lower(s0) ==
    CHOOSE r \in {[k \in 1..Len(s) |-> LowerChar(s[k])] : s \in {s0}} : TRUE

\* the part of s between its first and last character that is not white space
Trimmed(s, keep) ==
    IF keep = {} THEN <<>>
    ELSE SubSeq(s, CHOOSE k \in keep : \A j \in keep : k <= j,
                   CHOOSE k \in keep : \A j \in keep : k >= j)

\* str.strip()
Strip(s0) ==
    CHOOSE r \in {Trimmed(s, keep) :
                    s \in {s0},
                    keep \in {{k \in 1..Len(s0) : s0[k] \notin WhiteSpace}}} : TRUE

\* str.startswith(p)
StartsWith(s0, p) ==
    \E s \in {s0} : Len(s) >= Len(p) /\ SubSeq(s, 1, Len(p)) = p

\* s[n:]
Drop(s0, n) == CHOOSE r \in {SubSeq(s, n + 1, Len(s)) : s \in {s0}} : TRUE

\* c in s
Contains(s0, c) == \E s \in {s0} : \E k \in 1..Len(s) : s[k] = c

\* the part of s before the first c; s has one
UpToFirst(s, c) ==
    SubSeq(s, 1, (CHOOSE k \in 1..Len(s) :
                     s[k] = c /\ \A j \in 1..(k - 1) : s[j] # c) - 1)

\* s.split(c)[0]
BeforeFirst(s0, c) ==
    CHOOSE r \in {IF \E k \in 1..Len(s) : s[k] = c THEN UpToFirst(s, c) ELSE s :
                    s \in {s0}} : TRUE

Range(s) == {s[k] : k \in 1..Len(s)}

HTTP == <<"h","t","t","p",":","/","/">>
HTTPS == <<"h","t","t","p","s",":","/","/">>
WWW == <<"w","w","w",".">>

\* the list of line 77
Prefixes == <<HTTP, HTTPS, WWW>>

-----------------------------------------------------------------------------
(* domain_exists, lines 70-82 *)

\* line 70
Cleaned(d) == Lower(Strip(d))

\* line 73, negated: the call goes on to the resolver
FormatOK(d) == d # <<>> /\ Contains(d, ".") /\ Len(d) <= MaxDomainLen

\* a loop that stops at the first prefix it strips
RECURSIVE StripPrefixes_Break(_, _)
StripPrefixes_Break(d, k) ==
    IF k > Len(Prefixes) THEN d
    ELSE IF StartsWith(d, Prefixes[k]) THEN Drop(d, Len(Prefixes[k]))
         ELSE StripPrefixes_Break(d, k + 1)

\* lines 77-79: the loop over the prefixes, from the k-th on
RECURSIVE StripPrefixes(_, _)
StripPrefixes(d, k) ==
    IF k > Len(Prefixes) THEN d
    ELSE StripPrefixes(IF StartsWith(d, Prefixes[k])
                       THEN Drop(d, Len(Prefixes[k])) ELSE d, k + 1)

\* line 82
StripPath(d) == BeforeFirst(BeforeFirst(d, "/"), "?")

\* lines 70-82: the string handed to the resolver (or returned at line 74)
\* and whether the call goes on to the resolver
Normalize(d) ==
    LET c == Cleaned(d)
    IN  IF FormatOK(c)
        THEN [domain |-> StripPath(StripPrefixes(c, 1)), valid |-> TRUE]
        ELSE [domain |-> c, valid |-> FALSE]

-----------------------------------------------------------------------------
(* load_domains_from_file *)

\* lines 139-151: the loop over the lines of the file, from the k-th on
RECURSIVE ReadLines(_, _, _)
ReadLines(ls, k, acc) ==
    IF k > Len(ls) THEN acc
    ELSE LET domain == Strip(ls[k])
         IN  IF domain = <<>> \/ StartsWith(domain, <<"#">>)
             THEN ReadLines(ls, k + 1, acc)
             ELSE IF Len(domain) > MaxDomainLen
                  THEN ReadLines(ls, k + 1, acc)
                  ELSE ReadLines(ls, k + 1, Append(acc, domain))

\* line 154: list(dict.fromkeys(domains)) keeps the first occurrence of each string
RECURSIVE FromKeys(_, _, _)
FromKeys(ds, k, acc) ==
    IF k > Len(ds) THEN acc
    ELSE FromKeys(ds, k + 1, IF ds[k] \in Range(acc) THEN acc ELSE Append(acc, ds[k]))

load_domains_from_file(ls) == FromKeys(ReadLines(ls, 1, <<>>), 1, <<>>)

-----------------------------------------------------------------------------
(* The resolver: socket.gethostbyname, as seen by lines 92-114 *)

Outcomes == {"Resolved", "NotFound", "TimedOut", "Error"}

\* what the k-th lookup of entry i may answer
ResolverAnswers(i, k) ==
    IF script # <<>> /\ i \in DOMAIN script /\ k \in DOMAIN script[i]
    THEN {script[i][k]}
    ELSE Outcomes

-----------------------------------------------------------------------------
(* domain_exists, lines 85-116, as run by one worker of the pool *)

\* line 85: range(self.retry_count + 1) still has the value attempt
InRange(attempt, rc) == attempt < rc + 1

\* one retry too few
RetryRemaining_OffByOne(attempt, rc) == attempt + 1 < rc

\* line 105
RetryRemaining(attempt, rc) == attempt < rc

Returned(f, exists) ==
    [f EXCEPT !.st = "finished", !.result = <<f.norm, exists>>]

\* socket.gaierror handled like socket.timeout
OnOutcome_RetryNotFound(f, o, rc) ==
    LET g == [f EXCEPT !.hist = Append(@, o)]
    IN  CASE o = "Resolved" -> Returned(g, TRUE)
          [] o \in {"NotFound", "TimedOut"} ->
                               IF RetryRemaining(g.attempt, rc)
                               THEN [g EXCEPT !.st = "sleeping", !.waits = @ + 1]
                               ELSE Returned(g, FALSE)
          [] OTHER          -> Returned(g, FALSE)

\* no except Exception clause: the error leaves domain_exists
OnOutcome_ErrorEscapes(f, o, rc) ==
    LET g == [f EXCEPT !.hist = Append(@, o)]
    IN  CASE o = "Resolved" -> Returned(g, TRUE)
          [] o = "NotFound" -> Returned(g, FALSE)
          [] o = "TimedOut" -> IF RetryRemaining(g.attempt, rc)
                               THEN [g EXCEPT !.st = "sleeping", !.waits = @ + 1]
                               ELSE Returned(g, FALSE)
          [] OTHER          -> [g EXCEPT !.st = "finished", !.exc = TRUE]

\* the sleep of line 106 made after every time-out, the last one included
OnOutcome_SleepAlways(f, o, rc) ==
    LET g == [f EXCEPT !.hist = Append(@, o)]
    IN  CASE o = "Resolved" -> Returned(g, TRUE)
          [] o = "NotFound" -> Returned(g, FALSE)
          [] o = "TimedOut" -> [g EXCEPT !.st = "sleeping", !.waits = @ + 1]
          [] OTHER          -> Returned(g, FALSE)

\* lines 92-114: what the outcome o of the lookup does to the call f
OnOutcome(f, o, rc) ==
    LET g == [f EXCEPT !.hist = Append(@, o)]
    IN  CASE o = "Resolved" -> Returned(g, TRUE)                      \* line 95
          [] o = "NotFound" -> Returned(g, FALSE)                     \* line 100
          [] o = "TimedOut" -> IF RetryRemaining(g.attempt, rc)
                               THEN [g EXCEPT !.st = "sleeping", !.waits = @ + 1]      \* line 106
                               ELSE Returned(g, FALSE)                \* line 108
          [] OTHER          -> Returned(g, FALSE)                     \* line 114

\* lines 70-85: the call up to its first lookup
Entered(f, rc) ==
    LET n == Normalize(f.domain)
        g == [f EXCEPT !.norm = n.domain, !.valid = n.valid]
    IN  IF ~n.valid THEN Returned(g, FALSE)                           \* line 74
        ELSE IF ~InRange(0, rc) THEN Returned(g, FALSE)               \* line 116
        ELSE [g EXCEPT !.st = "running"]

\* lines 106-107, then line 85
Resumed(f, rc) ==
    IF InRange(f.attempt + 1, rc)
    THEN [f EXCEPT !.st = "running", !.attempt = @ + 1]
    ELSE Returned([f EXCEPT !.attempt = @ + 1], FALSE)                \* line 116

-----------------------------------------------------------------------------
(* check_domains_concurrent *)

\* executor.submit(self.domain_exists, domain): a new pending future
NewFuture(d) ==
    [domain |-> d, st |-> "queued", norm |-> None, valid |-> FALSE,
     attempt |-> 0, hist |-> <<>>, result |-> None, exc |-> FALSE,
     waits |-> 0,                \* the time.sleep calls made (line 106)
     old_timeout |-> None,       \* the local of line 88
     pending |-> "none",         \* the outcome of the lookup under way, until its handler has run
     eff |-> <<>>]               \* the default timeout in effect at each lookup

\* domain_exists calls that have started and not returned
InFlight(fs) == {i \in 1..Len(fs) : fs[i].st \notin {"queued", "finished"}}

\* a thread is started (or reused) for one more call whatever the number running
WorkerFree_OffByOne(n, mw) == n <= mw

\* ThreadPoolExecutor(max_workers): a work item starts only on one of its threads
WorkerFree(n, mw) == n < mw

\* a finished future is handed out again
Fresh_Again(i, coll) == TRUE

\* as_completed yields each future once
Fresh(i, coll) == i \notin Range(coll)

\* the return statement inside the loop body
LoopDone_Early(coll, n) == coll # <<>>

\* the for loop of line 220 is over: as_completed has yielded every future
LoopDone(coll, n) == \A i \in 1..n : i \in Range(coll)

\* assignment instead of append
Gathered_Overwrite(ex, res) == IF res[2] THEN <<res[1]>> ELSE ex

\* lines 221-223: the verdict res taken into existing_domains
Gathered(ex, res) == IF res[2] THEN Append(ex, res[1]) ELSE ex

-----------------------------------------------------------------------------
(* Inputs *)

SeqsUpTo(S, n) == UNION {[1..k -> S] : k \in 0..n}

RECURSIVE Concat(_)
Concat(ss) == IF ss = <<>> THEN <<>> ELSE Head(ss) \o Concat(Tail(ss))

\* lines of the input file the engine is run on
LinePool ==
    { <<"a",".","c">>,
      <<"W","W","W",".","a",".","c","\n">>,
      <<"b">>,
      <<"#","a",".","c">> }

\* arguments of domain_exists tried by NormSpec:
\* white space, stacked prefixes, a host, a path or query, white space
NormInputs ==
    { Concat(<<l, Concat(ps), h, t, r>>) :
        l \in {<<>>, <<" ">>},
        ps \in SeqsUpTo({HTTP, HTTPS, WWW, <<"W","w","w",".">>}, MaxPrefixes),
        h \in {<<"a",".","c">>, <<"A","c">>, <<>>},
        t \in {<<>>, <<"/","p","?","q">>, <<"?","q",".","r">>},
        r \in {<<>>, <<"\n">>} }

\* the two-line files DetSpec is run on
DetFiles ==
    { << <<"a",".","c">>, <<"b",".","d">> >>,
      << <<"a",".","c">>, <<"W","W","W",".","a",".","c">> >> }

-----------------------------------------------------------------------------
(* Initial states *)

Unchecked == [domain |-> <<>>, valid |-> FALSE]

\* the input file exists and can be read, the output file can be written
AllFilesFine == [input_exists |-> TRUE, readable |-> TRUE, writable |-> TRUE]

Idle ==
    /\ pc = "load"
    /\ domains = <<>>
    /\ futures = <<>>
    /\ collected = <<>>
    /\ existing_domains = <<>>
    /\ pbar = 0
    /\ raw = <<>>
    /\ checked = Unchecked
    /\ defaulttimeout = None
    /\ timeout = DefaultTimeout
    /\ args = [timeout |-> timeout, workers |-> max_workers, retries |-> retry_count]
    /\ env = AllFilesFine
    /\ exit_code = 0
    /\ saved = <<>>

\* a run of filter_existing_domains on some input file, with any resolver
Init ==
    /\ lines \in SeqsUpTo(LinePool, MaxLines)
    /\ max_workers \in 1..MaxWorkers
    /\ retry_count \in (-1)..MaxRetry
    /\ script = <<>>
    /\ Idle

\* the same, with the resolver's answer to every attempt fixed in advance
InitDet ==
    /\ lines \in DetFiles
    /\ max_workers \in 1..MaxWorkers
    /\ retry_count \in 0..MaxRetry
    /\ script \in [1..Len(load_domains_from_file(lines)) -> [1..(retry_count + 1) -> Outcomes]]
    /\ Idle

\* one call of the normalisation of domain_exists
InitNorm ==
    /\ raw \in NormInputs
    /\ checked = Unchecked
    /\ lines = <<>>
    /\ max_workers = 1
    /\ retry_count = 0
    /\ script = <<>>
    /\ pc = "norm"
    /\ domains = <<>>
    /\ futures = <<>>
    /\ collected = <<>>
    /\ existing_domains = <<>>
    /\ pbar = 0
    /\ defaulttimeout = None
    /\ timeout = DefaultTimeout
    /\ args = [timeout |-> timeout, workers |-> max_workers, retries |-> retry_count]
    /\ env = AllFilesFine
    /\ exit_code = 0
    /\ saved = <<>>

\* the command lines MainSpec is run on: -t, -w and -r
CommandLines ==
    [timeout : {0, DefaultTimeout},
     workers : {0, 1, MaxWorkers, WorkersLimit, WorkersLimit + 1},
     retries : (-1)..MaxRetry]

\* main() after parse_args: any command line, any input file, files that
\* may be missing, unreadable or unwritable; no DomainChecker exists yet
InitMain ==
    /\ args \in CommandLines
    /\ env \in [input_exists : BOOLEAN, readable : BOOLEAN, writable : BOOLEAN]
    /\ env.readable => env.input_exists
    /\ lines \in SeqsUpTo(LinePool, MaxLines)
    /\ pc = "main"
    /\ max_workers = 1
    /\ retry_count = 0
    /\ timeout = DefaultTimeout
    /\ script = <<>>
    /\ domains = <<>>
    /\ futures = <<>>
    /\ collected = <<>>
    /\ existing_domains = <<>>
    /\ pbar = 0
    /\ raw = <<>>
    /\ checked = Unchecked
    /\ defaulttimeout = None
    /\ exit_code = 0
    /\ saved = <<>>

-----------------------------------------------------------------------------
(* Actions of the main thread *)

\* no check of the loaded list: the engine is run on an empty list too
NoDomains_Never(ds) == FALSE

\* line 250: not domains
NoDomains(ds) == ds = <<>>

\* filter_existing_domains, lines 248-254
Load ==
    /\ pc = "load"
    /\ env.readable
    /\ domains' = load_domains_from_file(lines)
    /\ pc' = IF NoDomains(domains') THEN "noop" ELSE "submit"
    /\ UNCHANGED <<lines, max_workers, retry_count, script, futures, collected,
                   existing_domains, pbar, raw, checked, runVars>>

\* lines 213-216: one executor.submit of the dict comprehension; line 219 after the last
Submit ==
    /\ pc = "submit"
    /\ Len(futures) < Len(domains)
    /\ futures' = Append(futures, NewFuture(domains[Len(futures) + 1]))
    /\ pc' = IF Len(futures') = Len(domains) THEN "collect" ELSE "submit"
    /\ UNCHANGED <<lines, max_workers, retry_count, script, domains, collected,
                   existing_domains, pbar, raw, checked, runVars>>

\* lines 220-224: as_completed yields future i; one pass of the loop body
Collect(i) ==
    /\ pc = "collect"
    /\ i \in 1..Len(futures)
    /\ futures[i].st = "finished"
    /\ Fresh(i, collected)
    /\ collected' = Append(collected, i)
    /\ IF futures[i].exc
       THEN /\ pc' = "raised"                        \* future.result() re-raises
            /\ UNCHANGED <<existing_domains, pbar>>
       ELSE /\ pc' = pc
            /\ existing_domains' = Gathered(existing_domains, futures[i].result)
            /\ pbar' = pbar + 1
    /\ UNCHANGED <<lines, max_workers, retry_count, script, domains, futures, raw, checked, runVars>>

\* the loop ends, the with block shuts the pool down (waiting), line 226 returns
Return ==
    /\ pc = "collect"
    /\ LoopDone(collected, Len(futures))
    /\ InFlight(futures) = {}
    /\ pc' = "returned"
    /\ UNCHANGED <<lines, max_workers, retry_count, script, domains, futures,
                   collected, existing_domains, pbar, raw, checked, runVars>>

-----------------------------------------------------------------------------
(* Actions of the pool's workers *)

PoolAlive == pc \in {"submit", "collect"}

WorkerStep(i, f) ==
    /\ futures' = [futures EXCEPT ![i] = f]
    /\ UNCHANGED <<lines, max_workers, retry_count, script, pc, domains,
                   collected, existing_domains, pbar, raw, checked, runVars>>

\* a free worker takes the oldest work item off the queue and enters domain_exists
Start(i) ==
    /\ PoolAlive
    /\ i \in 1..Len(futures)
    /\ futures[i].st = "queued"
    /\ \A j \in 1..(i - 1) : futures[j].st # "queued"
    /\ WorkerFree(Cardinality(InFlight(futures)), max_workers)
    /\ WorkerStep(i, Entered(futures[i], retry_count))

\* lines 86-114: one pass of the retry loop, the lookup answering o
Attempt(i, o) ==
    /\ PoolAlive
    /\ i \in 1..Len(futures)
    /\ futures[i].st = "running"
    /\ o \in ResolverAnswers(i, futures[i].attempt + 1)
    /\ WorkerStep(i, OnOutcome(futures[i], o, retry_count))

\* line 106: the sleep is over
Backoff(i) ==
    /\ PoolAlive
    /\ i \in 1..Len(futures)
    /\ futures[i].st = "sleeping"
    /\ WorkerStep(i, Resumed(futures[i], retry_count))

-----------------------------------------------------------------------------
(* SockSpec: one pass of the retry loop, statement by statement, with the   *)
(* process-wide default timeout of the socket module                        *)

SockStep(i, f, dt) ==
    /\ futures' = [futures EXCEPT ![i] = f]
    /\ defaulttimeout' = dt
    /\ UNCHANGED <<lines, max_workers, retry_count, script, pc, domains,
                   collected, existing_domains, pbar, raw, checked,
                   timeout, args, env, exit_code, saved>>

\* line 88: old_timeout = socket.getdefaulttimeout()
GetTimeout(i) ==
    /\ PoolAlive
    /\ i \in 1..Len(futures)
    /\ futures[i].st = "running"
    /\ SockStep(i, [futures[i] EXCEPT !.st = "setting", !.old_timeout = defaulttimeout],
                defaulttimeout)

\* line 89: socket.setdefaulttimeout(self.timeout)
SetTimeout(i) ==
    /\ PoolAlive
    /\ i \in 1..Len(futures)
    /\ futures[i].st = "setting"
    /\ SockStep(i, [futures[i] EXCEPT !.st = "looking"], Secs(timeout))

\* line 92: socket.gethostbyname(domain) answers o, under the default timeout of the moment
Lookup(i, o) ==
    /\ PoolAlive
    /\ i \in 1..Len(futures)
    /\ futures[i].st = "looking"
    /\ o \in ResolverAnswers(i, futures[i].attempt + 1)
    /\ SockStep(i, [futures[i] EXCEPT !.st = "restoring", !.pending = o,
                                      !.eff = Append(@, defaulttimeout)],
                defaulttimeout)

\* lines 93, 99, 104, 112: socket.setdefaulttimeout(old_timeout), then the
\* return or the sleep of the branch taken
Restore(i) ==
    /\ PoolAlive
    /\ i \in 1..Len(futures)
    /\ futures[i].st = "restoring"
    /\ SockStep(i, OnOutcome([futures[i] EXCEPT !.pending = "none"],
                             futures[i].pending, retry_count),
                futures[i].old_timeout)

-----------------------------------------------------------------------------
(* MainSpec: main() and the rest of filter_existing_domains *)

\* a time-out of zero is let through
TimeoutRejected_Negative(t) == t < 0

\* line 369
TimeoutRejected(t) == t <= 0

\* line 373
WorkersRejected(w) == w <= 0 \/ w > WorkersLimit

\* sys.exit(code), or the end of main() with code 0
Exit(code) ==
    /\ pc' = "exit"
    /\ exit_code' = code

\* lines 365-382: the three checks of main(), then the DomainChecker is built
Validate ==
    /\ pc = "main"
    /\ IF \/ ~env.input_exists                       \* line 365
          \/ TimeoutRejected(args.timeout)
          \/ WorkersRejected(args.workers)
       THEN /\ Exit(1)
            /\ UNCHANGED <<timeout, max_workers, retry_count>>
       ELSE /\ timeout' = args.timeout               \* lines 378-382
            /\ max_workers' = args.workers
            /\ retry_count' = args.retries
            /\ pc' = "load"
            /\ exit_code' = exit_code
    /\ UNCHANGED <<lines, script, domains, futures, collected, existing_domains,
                   pbar, raw, checked, defaulttimeout, args, env, saved>>

\* lines 248, 161-166, 275-278: load_domains_from_file raises
LoadError ==
    /\ pc = "load"
    /\ ~env.readable
    /\ Exit(1)
    /\ UNCHANGED <<lines, max_workers, retry_count, script, domains, futures,
                   collected, existing_domains, pbar, raw, checked,
                   defaulttimeout, timeout, args, env, saved>>

\* lines 250-252: the return of the empty case; main() ends
NoopExit ==
    /\ pc = "noop"
    /\ Exit(0)
    /\ UNCHANGED <<lines, max_workers, retry_count, script, domains, futures,
                   collected, existing_domains, pbar, raw, checked,
                   defaulttimeout, timeout, args, env, saved>>

\* lines 261-278: the list is given to save_domains_to_file if it is not
\* empty; an error of the writer is caught at line 275
Save ==
    /\ pc = "returned"
    /\ IF existing_domains # <<>>                     \* line 262
       THEN /\ saved' = Append(saved, existing_domains)
            /\ Exit(IF env.writable THEN 0 ELSE 1)
       ELSE /\ saved' = saved
            /\ Exit(0)
    /\ UNCHANGED <<lines, max_workers, retry_count, script, domains, futures,
                   collected, existing_domains, pbar, raw, checked,
                   defaulttimeout, timeout, args, env>>

-----------------------------------------------------------------------------
(* NormSpec: lines 70-82 applied to one argument *)

Check ==
    /\ pc = "norm"
    /\ checked' = Normalize(raw)
    /\ pc' = "normed"
    /\ UNCHANGED <<lines, max_workers, retry_count, script, domains, futures,
                   collected, existing_domains, pbar, raw, runVars>>

\* lines 85-92: a string that passed line 73 is handed to socket.gethostbyname
FirstLookup ==
    /\ pc = "normed"
    /\ checked.valid
    /\ InRange(0, retry_count)
    /\ pc' = "lookup"
    /\ UNCHANGED <<lines, max_workers, retry_count, script, domains, futures,
                   collected, existing_domains, pbar, raw, checked, runVars>>

-----------------------------------------------------------------------------
(* Specifications *)

Next ==
    \/ Load
    \/ Submit
    \/ \E i \in 1..Len(futures) : Start(i)
    \/ \E i \in 1..Len(futures) : \E o \in Outcomes : Attempt(i, o)
    \/ \E i \in 1..Len(futures) : Backoff(i)
    \/ \E i \in 1..Len(futures) : Collect(i)
    \/ Return

Spec == Init /\ [][Next]_vars

MainThread == Load \/ Submit \/ (\E i \in 1..Len(futures) : Collect(i)) \/ Return

Workers ==
    \E i \in 1..Len(futures) :
        Start(i) \/ (\E o \in Outcomes : Attempt(i, o)) \/ Backoff(i)

\* the main thread and the pool's threads are scheduled when they can run,
\* and every lookup and every sleep ends
Fairness == WF_vars(MainThread) /\ WF_vars(Workers)

FairSpec == Init /\ [][Next]_vars /\ Fairness

DetSpec == InitDet /\ [][Next]_vars

NextNorm == Check \/ FirstLookup

WorkersSock ==
    \E i \in 1..Len(futures) :
        \/ Start(i)
        \/ GetTimeout(i)
        \/ SetTimeout(i)
        \/ \E o \in Outcomes : Lookup(i, o)
        \/ Restore(i)
        \/ Backoff(i)

NextSock ==
    \/ Load
    \/ Submit
    \/ \E i \in 1..Len(futures) : Start(i)
    \/ \E i \in 1..Len(futures) : GetTimeout(i)
    \/ \E i \in 1..Len(futures) : SetTimeout(i)
    \/ \E i \in 1..Len(futures) : \E o \in Outcomes : Lookup(i, o)
    \/ \E i \in 1..Len(futures) : Restore(i)
    \/ \E i \in 1..Len(futures) : Backoff(i)
    \/ \E i \in 1..Len(futures) : Collect(i)
    \/ Return

\* the run of Spec, with the four statements of a lookup as separate steps
SockSpec == Init /\ [][NextSock]_vars

NormSpec == InitNorm /\ [][NextNorm]_vars

NextMain ==
    \/ Validate
    \/ LoadError
    \/ Load
    \/ NoopExit
    \/ Submit
    \/ \E i \in 1..Len(futures) : Start(i)
    \/ \E i \in 1..Len(futures) : \E o \in Outcomes : Attempt(i, o)
    \/ \E i \in 1..Len(futures) : Backoff(i)
    \/ \E i \in 1..Len(futures) : Collect(i)
    \/ Return
    \/ Save

\* one run of the program from main() to its exit
MainSpec == InitMain /\ [][NextMain]_vars

-----------------------------------------------------------------------------
(* Properties *)

Count(seq, x) == Cardinality({k \in 1..Len(seq) : seq[k] = x})

Last(seq) == seq[Len(seq)]

HasVerdict(f) == f.st = "finished" /\ ~f.exc /\ f.result # None

\* C1: every submitted entry gets exactly one verdict, produced by its
\* domain_exists call and collected once: no entry is collected twice, nothing
\* is collected that has no verdict, the progress counter counts the collected
\* verdicts, and when check_domains_concurrent returns every entry of its
\* argument has been submitted and collected exactly once.
C1_ExactlyOneVerdict ==
    /\ \A i \in 1..Len(futures) : Count(collected, i) <= 1
    /\ \A k \in 1..Len(collected) :
          collected[k] \in 1..Len(futures) /\ HasVerdict(futures[collected[k]])
    /\ pbar = Len(collected)
    /\ pc = "returned" =>
          /\ Len(futures) = Len(domains)
          /\ \A i \in 1..Len(domains) :
                futures[i].domain = domains[i] /\ Count(collected, i) = 1

\* two entries, collected against the submission order, one after an error and
\* one after a time-out, and the call has returned
C1_Witness ==
    /\ pc = "returned"
    /\ Len(futures) = 2
    /\ collected = <<2, 1>>
    /\ \E i, j \in 1..2 : /\ "Error" \in Range(futures[i].hist)
                          /\ "TimedOut" \in Range(futures[j].hist)

\* C2: the number of domain_exists calls that have started and not returned
\* never exceeds max_workers.
C2_BoundedInFlight == Cardinality(InFlight(futures)) <= max_workers

\* the pool is full and a submitted call is waiting for a worker
C2_Witness ==
    /\ Cardinality(InFlight(futures)) = max_workers
    /\ \E i \in 1..Len(futures) : futures[i].st = "queued"

\* C3: check_domains_concurrent has returned only if every submitted call has
\* produced its verdict and the verdict has been taken; and under fair
\* scheduling, with every lookup and sleep ending, a call that has begun to
\* submit eventually returns.
C3_ReturnsAfterAll ==
    /\ [](pc = "returned" =>
            /\ Len(futures) = Len(domains)
            /\ \A i \in 1..Len(futures) :
                  HasVerdict(futures[i]) /\ i \in Range(collected))
    /\ ((pc = "submit") ~> (pc = "returned"))

\* the call has returned after a run in which a call slept and retried
C3_Witness ==
    /\ pc = "returned"
    /\ Len(futures) >= 2
    /\ \E i \in 1..Len(futures) : Len(futures[i].hist) >= 2

\* C4: for a valid domain and retry_count >= 0, a call never makes more than
\* retry_count + 1 attempts; one that has returned after nothing but time-outs
\* returned false after exactly retry_count + 1 attempts; one whose first
\* attempt reported not-found returned false after exactly 1 attempt.
C4_RetryCounts ==
    retry_count >= 0 =>
      \A i \in 1..Len(futures) :
        LET f == futures[i]
        IN  /\ Len(f.hist) <= retry_count + 1
            /\ (f.st = "finished" /\ f.valid /\ \A k \in 1..Len(f.hist) : f.hist[k] = "TimedOut")
                  => f.result[2] = FALSE /\ Len(f.hist) = retry_count + 1
            /\ (f.hist # <<>> /\ f.hist[1] = "NotFound")
                  => f.st = "finished" /\ f.result[2] = FALSE /\ Len(f.hist) = 1

\* with at least one retry configured, one call has returned after timing out
\* on every attempt and another after a not-found on its first
C4_Witness ==
    /\ retry_count >= 1
    /\ \E i, j \in 1..Len(futures) :
          /\ futures[i].st = "finished"
          /\ Len(futures[i].hist) = retry_count + 1
          /\ \A k \in 1..Len(futures[i].hist) : futures[i].hist[k] = "TimedOut"
          /\ futures[j].st = "finished"
          /\ futures[j].hist = <<"NotFound">>

\* C5: within one call every attempt but the last timed out; an attempt that
\* did not time out ends the call at once, with verdict true after Resolved
\* and false after NotFound or Error.
C5_RetryOnlyOnTimeout ==
    \A i \in 1..Len(futures) :
      LET f == futures[i]
      IN  /\ \A k \in 1..(Len(f.hist) - 1) : f.hist[k] = "TimedOut"
          /\ (f.hist # <<>> /\ Last(f.hist) # "TimedOut")
                => /\ f.st = "finished"
                   /\ f.result = <<f.norm, Last(f.hist) = "Resolved">>

\* one call resolved on its retry, another ended on an error
C5_Witness ==
    \E i, j \in 1..Len(futures) :
       /\ futures[i].hist = <<"TimedOut", "Resolved">>
       /\ futures[i].result = <<futures[i].norm, TRUE>>
       /\ futures[j].st = "finished"
       /\ futures[j].hist # <<>>
       /\ Last(futures[j].hist) = "Error"
       /\ futures[j].result = <<futures[j].norm, FALSE>>

\* C6: no exception leaves domain_exists or reaches check_domains_concurrent:
\* a call whose last attempt raised (not-found, time-out, other error) and
\* that has ended holds the verdict (domain, false), and a batch that has
\* returned holds a verdict for every domain.
C6_NoLookupAbortsBatch ==
    /\ pc # "raised"
    /\ \A i \in 1..Len(futures) :
          LET f == futures[i]
          IN  /\ ~f.exc
              /\ (f.st = "finished" /\ f.hist # <<>> /\ Last(f.hist) # "Resolved")
                    => f.result = <<f.norm, FALSE>>
    /\ pc = "returned" => \A i \in 1..Len(domains) : HasVerdict(futures[i])

\* the batch has returned; one domain ended on an error, another exists
C6_Witness ==
    /\ pc = "returned"
    /\ \E i, j \in 1..Len(futures) :
          /\ futures[i].hist # <<>>
          /\ Last(futures[i].hist) = "Error"
          /\ futures[i].result = <<futures[i].norm, FALSE>>
          /\ futures[j].result = <<futures[j].norm, TRUE>>
          /\ i \in Range(collected)
          /\ j \in Range(collected)

\* the outcome that ends a call given the resolver's answers sc: the first
\* that is not a time-out
RECURSIVE Decisive(_)
Decisive(sc) ==
    IF sc = <<>> THEN "TimedOut"
    ELSE IF Head(sc) # "TimedOut" THEN Head(sc) ELSE Decisive(Tail(sc))

\* the existing domains as a function of the input and the resolver's answers alone
ExpectedExisting ==
    { Normalize(domains[i]).domain :
        i \in {j \in 1..Len(domains) :
                 Normalize(domains[j]).valid /\ Decisive(script[j]) = "Resolved"} }

\* C7: with the resolver's answers fixed per entry, the set of domains
\* check_domains_concurrent returns is a function of the input and of those
\* answers: the same for every max_workers and every interleaving.
C7_SameSetForAnyWorkers ==
    pc = "returned" => Range(existing_domains) = ExpectedExisting

\* two workers, both domains exist, the second was collected first
C7_Witness ==
    /\ pc = "returned"
    /\ max_workers = 2
    /\ collected = <<2, 1>>
    /\ Len(existing_domains) = 2
    /\ existing_domains[1] # existing_domains[2]

\* C8: every element of the list check_domains_concurrent returns is an
\* element of the list it was given.
C8_ResultWithinInput ==
    pc = "returned" =>
       \A k \in 1..Len(existing_domains) : existing_domains[k] \in Range(domains)

\* C9: the list submitted to the engine holds each normalized domain at most
\* once, so that no domain is resolved twice nor reported twice as existing.
C9_NormalizedOnce ==
    /\ \A i, j \in 1..Len(domains) :
          i # j => Normalize(domains[i]).domain # Normalize(domains[j]).domain
    /\ \A i, j \in 1..Len(futures) :
          (i # j /\ futures[i].hist # <<>> /\ futures[j].hist # <<>>)
             => futures[i].norm # futures[j].norm
    /\ \A k, l \in 1..Len(existing_domains) :
          k # l => existing_domains[k] # existing_domains[l]

\* the first prefix of the priority order that d starts with, removed; no other
FirstPrefixStripped(d) ==
    CASE StartsWith(d, HTTP)  -> Drop(d, Len(HTTP))
      [] StartsWith(d, HTTPS) -> Drop(d, Len(HTTPS))
      [] StartsWith(d, WWW)   -> Drop(d, Len(WWW))
      [] OTHER                -> d

\* C10 as stated: at most one prefix is stripped, the first that matches, and
\* a prefix that comes to the front by that removal stays.
C10_AtMostOnePrefix ==
    (pc = "normed" /\ checked.valid) =>
       checked.domain = StripPath(FirstPrefixStripped(Cleaned(raw)))

\* C10, amended: the prefixes are tried once each, in the order http://,
\* https://, www., each against what the earlier removals left; every one that
\* matches is removed, so up to three are stripped (http://www.a.c gives a.c),
\* and a prefix brought to the front by the removal of a later one stays.
C10_EachPrefixOnceInOrder ==
    (pc = "normed" /\ checked.valid) =>
       LET c0 == Cleaned(raw)
       IN  \E r1, r2, r3 \in BOOLEAN :
              LET c1 == IF r1 THEN Drop(c0, Len(HTTP)) ELSE c0
                  c2 == IF r2 THEN Drop(c1, Len(HTTPS)) ELSE c1
                  c3 == IF r3 THEN Drop(c2, Len(WWW)) ELSE c2
              IN  /\ r1 <=> StartsWith(c0, HTTP)
                  /\ r2 <=> StartsWith(c1, HTTPS)
                  /\ r3 <=> StartsWith(c2, WWW)
                  /\ checked.domain = StripPath(c3)

\* http://www.a.c has been normalized to a.c
C10_Witness ==
    /\ pc = "normed"
    /\ raw = HTTP \o WWW \o <<"a",".","c">>
    /\ checked = [domain |-> <<"a",".","c">>, valid |-> TRUE]

\* C11: normalization is idempotent: the steps of lines 70-82 applied to the
\* string they produced from an accepted input give that string again.
C11_Idempotent ==
    (pc \in {"normed", "lookup"} /\ checked.valid) =>
       Normalize(checked.domain).domain = checked.domain

\* C12: a string handed to the resolver contains a '.' and has at most 253
\* characters.
C12_OnlyValidDomainsLookedUp ==
    pc = "lookup" =>
       Contains(checked.domain, ".") /\ Len(checked.domain) <= MaxDomainLen

\* C13: the workers change no state shared between them: no step of a worker
\* changes the process-wide default timeout, the result list or the progress
\* counter.
C13_WorkersChangeNoSharedState ==
    [][WorkersSock => UNCHANGED <<defaulttimeout, existing_domains, pbar>>]_vars

\* C14: at every lookup the default timeout in effect is the configured one.
C14_LookupUnderConfiguredTimeout ==
    \A i \in 1..Len(futures) :
       \A k \in 1..Len(futures[i].eff) : futures[i].eff[k] = Secs(timeout)

\* C19: when check_domains_concurrent has returned, the default timeout is
\* what it was before the call (None).
C19_TimeoutRestored == pc = "returned" => defaulttimeout = None

\* C20: within one domain_exists call that reaches the lookup loop, a wait is
\* made exactly between a timed-out attempt and the retry that follows it: a
\* call is asleep only after a time-out that has a retry left, a call that is
\* about to look up has waited once per attempt made so far, and a call that
\* has returned has waited once less than it has attempted, so that nothing is
\* waited after the final attempt nor after an attempt that resolved, was not
\* found or raised another error; a call that attempts nothing waits nothing.
C20_WaitsBetweenAttempts ==
    \A i \in 1..Len(futures) :
        /\ futures[i].st = "sleeping" =>
              /\ futures[i].hist # <<>>
              /\ Last(futures[i].hist) = "TimedOut"
              /\ futures[i].waits = Len(futures[i].hist)
              /\ InRange(Len(futures[i].hist), retry_count)
        /\ futures[i].st = "running" => futures[i].waits = Len(futures[i].hist)
        /\ (futures[i].st = "finished" /\ futures[i].hist # <<>>) =>
              futures[i].waits = Len(futures[i].hist) - 1
        /\ futures[i].hist = <<>> => futures[i].waits = 0
        /\ \A k \in 1..(Len(futures[i].hist) - 1) : futures[i].hist[k] = "TimedOut"

\* one call has returned after a time-out, a wait and a final time-out, and
\* another after a single attempt that was not a time-out
C20_Witness ==
    /\ \E i \in 1..Len(futures) :
          /\ futures[i].st = "finished"
          /\ Len(futures[i].hist) >= 2
          /\ Last(futures[i].hist) = "TimedOut"
          /\ futures[i].waits = Len(futures[i].hist) - 1
    /\ \E j \in 1..Len(futures) :
          /\ futures[j].st = "finished"
          /\ futures[j].hist \in {<<"NotFound">>, <<"Error">>, <<"Resolved">>}
          /\ futures[j].waits = 0

\* the engine has been invoked: check_domains_concurrent has been entered
EngineInvoked == pc \in {"submit", "collect", "raised", "returned"} \/ futures # <<>>

\* C15: check_domains_concurrent is reached only with a valid configuration:
\* whatever the command line, the engine is never invoked unless timeout > 0,
\* 1 <= max_workers <= 200 and retry_count >= 0; a command line with 0 or 201
\* workers never reaches the engine.
C15_EngineOnlyWithValidConfig ==
    EngineInvoked =>
        /\ timeout > 0
        /\ max_workers >= 1 /\ max_workers <= 200
        /\ retry_count >= 0
        /\ args.workers # 0 /\ args.workers # 201

\* one of the three checks of main() has failed
ValidationFailed ==
    \/ ~env.input_exists
    \/ args.timeout <= 0
    \/ args.workers < 1 \/ args.workers > 200

\* the Domain Set has been loaded: line 248 has returned
Loaded == pc \notin {"main", "load"} /\ ~ValidationFailed /\ env.readable

\* C16: when the loaded Domain Set is empty, the engine is never invoked, no
\* lookup is attempted, and the run ends as a no-op: nothing checked, nothing
\* found to exist, nothing written, exit code 0.
C16_EmptySetIsNoOp ==
    (Loaded /\ domains = <<>>) =>
        /\ ~EngineInvoked
        /\ pc \in {"noop", "exit"}
        /\ futures = <<>> /\ collected = <<>>
        /\ pbar = 0
        /\ existing_domains = <<>>
        /\ saved = <<>>
        /\ exit_code = 0

\* the run of a file whose lines are all comments has ended
C16_Witness ==
    /\ pc = "exit"
    /\ Loaded
    /\ lines # <<>>
    /\ domains = <<>>
    /\ exit_code = 0

\* C17: the process has exit code 1 exactly when argument validation failed,
\* or the input file could not be loaded, or the output file could not be
\* written, or an exception surfaced during the run; every other run, the
\* run of an empty Domain Set and the run in which no domain exists among
\* them, has exit code 0.
C17_ExitCode ==
    pc = "exit" =>
        /\ exit_code \in {0, 1}
        /\ exit_code = 1 <=>
              \/ ValidationFailed
              \/ ~env.readable                          \* the load raised
              \/ saved # <<>> /\ ~env.writable          \* the writer raised
              \/ \E i \in 1..Len(futures) : futures[i].exc
        /\ (~ValidationFailed /\ env.readable /\ domains = <<>>) => exit_code = 0
        /\ (~ValidationFailed /\ env.readable /\ existing_domains = <<>>) => exit_code = 0

\* a run that resolved two domains, found one to exist and could not write
\* the output file has ended with exit code 1
C17_Witness ==
    /\ pc = "exit"
    /\ exit_code = 1
    /\ Len(domains) = 2
    /\ Len(existing_domains) = 1
    /\ saved = <<existing_domains>>
    /\ ~env.writable

\* the resolution of a non-empty Domain Set has completed and the run is over
ResolutionCompleted ==
    /\ pc = "exit"
    /\ domains # <<>>
    /\ Len(collected) = Len(domains)

\* C18: in every run of a non-empty Domain Set whose resolution completes,
\* the final existing-domain set is handed to the output writer exactly once,
\* and only after every submitted domain has its verdict; also when that set
\* is empty.
C18_HandedToWriterOnce ==
    /\ ResolutionCompleted => saved = <<existing_domains>>
    /\ saved # <<>> =>
          /\ Len(futures) = Len(domains)
          /\ \A i \in 1..Len(futures) : HasVerdict(futures[i])

====
